---------------------------- MODULE Spec2Model ----------------------------
(***************************************************************************)
(* A model of the calibration store, the pixel <-> table transform, the    *)
(* inverse-kinematics solver and the angle -> pulse-width mapping of        *)
(* kinematics.py, and of the interactive calibration tool calibrate.py.     *)
(*                                                                          *)
(* Python floats are modelled as binary floating-point numbers with a       *)
(* MantBits-bit mantissa and round-to-nearest-even after every operation    *)
(* (the arithmetic of an IEEE double, with a shorter mantissa and no        *)
(* exponent limits).  A float is the record [m |-> mantissa, e |-> exp]     *)
(* of value m * 2^e, with m = 0 or 2^(MantBits-1) <= |m| < 2^MantBits.      *)
(* Python ints are TLA+ integers.                                           *)
(***************************************************************************)
EXTENDS Integers, Sequences, FiniteSets, TLC

(***************************************************************************)
(* Bounds of the model.                                                    *)
(***************************************************************************)
MantBits == 13

----------------------------------------------------------------------------
(***************************************************************************)
(* Floating-point arithmetic.                                              *)
(***************************************************************************)
Abs(n) == IF n < 0 THEN -n ELSE n

Sign(n) == IF n < 0 THEN -1 ELSE IF n > 0 THEN 1 ELSE 0

Zero == [m |-> 0, e |-> 0]

\* Round (q + fraction) * 2^e, with 2^MantBits <= q < 2^(MantBits+1) and
\* sticky = (fraction > 0), to MantBits bits, ties to even.
RoundQ(s, q, sticky, e) ==
  LET m0 == q \div 2
      up == (q % 2 = 1) /\ (sticky \/ m0 % 2 = 1)
      m1 == IF up THEN m0 + 1 ELSE m0
  IN  IF m1 = 2^MantBits
        THEN [m |-> s * 2^(MantBits - 1), e |-> e + 2]
        ELSE [m |-> s * m1, e |-> e + 1]

RECURSIVE NormPos(_, _, _, _)
\* The float nearest to s * (a / d) * 2^e, for integers a > 0, d > 0.
NormPos(s, a, d, e) ==
  IF a < d * 2^MantBits THEN NormPos(s, 2 * a, d, e - 1)
  ELSE IF a >= d * 2^(MantBits + 1) THEN NormPos(s, a, 2 * d, e + 1)
  ELSE RoundQ(s, a \div d, a % d # 0, e)

\* The float nearest to (n / d) * 2^e, for integers n and d > 0.
Norm(n, d, e) == IF n = 0 THEN Zero ELSE NormPos(Sign(n), Abs(n), d, e)

\* float(n) of a Python int, and the float literal n/d (as 0.0015 is 15/10000).
FromInt(n) == Norm(n, 1, 0)

FRat(n, d) == Norm(n, d, 0)

FNeg(a) == [m |-> -a.m, e |-> a.e]

FAbs(a) == [m |-> Abs(a.m), e |-> a.e]

FMul(a, b) == Norm(a.m * b.m, 1, a.e + b.e)

\* a / b for b # 0 (Python raises ZeroDivisionError for b = 0: the callers test it).
FDiv(a, b) == Norm(a.m * Sign(b.m), Abs(b.m), a.e - b.e)

FAdd(a, b) ==
  IF a.m = 0 THEN b
  ELSE IF b.m = 0 THEN a
  ELSE LET hi == IF a.e >= b.e THEN a ELSE b
           lo == IF a.e >= b.e THEN b ELSE a
           d  == hi.e - lo.e
       IN  IF d > MantBits + 1 THEN hi
           ELSE Norm(hi.m * 2^d + lo.m, 1, lo.e)

FSub(a, b) == FAdd(a, FNeg(b))

FLess(a, b) == FSub(a, b).m < 0

FMax(a, b) == IF FLess(a, b) THEN b ELSE a

FMin(a, b) == IF FLess(b, a) THEN b ELSE a

\* int(a): truncation toward zero.
Trunc(a) ==
  IF a.e >= 0 THEN a.m * 2^(a.e)
  ELSE IF -a.e > MantBits THEN 0
  ELSE Sign(a.m) * (Abs(a.m) \div 2^(-a.e))

RECURSIVE ISqrt(_)
ISqrt(n) ==
  IF n < 2 THEN n
  ELSE LET s == 2 * ISqrt(n \div 4)
       IN  IF (s + 1) * (s + 1) <= n THEN s + 1 ELSE s

\* math.sqrt(a) for a >= 0, correctly rounded.
FSqrt(a) ==
  IF a.m = 0 THEN Zero
  ELSE LET k == IF (a.e - (MantBits + 1)) % 2 = 0 THEN MantBits + 1 ELSE MantBits + 2
           M == a.m * 2^k
           q == ISqrt(M)
       IN  RoundQ(1, q, q * q # M, (a.e - k) \div 2)


----------------------------------------------------------------------------
(***************************************************************************)
(* Python values.  A dict is a TLA+ record (a function on its keys); None  *)
(* is a record of its own, so that it compares unequal to every dict.       *)
(* A call's outcome is Ok(value) or Raise(exception name).                  *)
(***************************************************************************)
None == [type |-> "NoneType"]

Ok(v) == [exc |-> "", val |-> v]

Raise(e) == [exc |-> e]

\* d.get(k, dflt)
Get(d, k, dflt) == IF k \in DOMAIN d THEN d[k] ELSE dflt

\* kinematics.py: DEFAULT_CALIBRATION
DEFAULT_CALIBRATION ==
  [origin_px          |-> <<320, 240>>,
   scale_x            |-> FRat(15, 10000),
   scale_y            |-> FRat(15, 10000),
   flip_x             |-> FALSE,
   flip_y             |-> TRUE,
   table_width_m      |-> FRat(60, 100),
   table_height_m     |-> FRat(40, 100),
   arm_base_x         |-> Zero,
   arm_base_y         |-> Zero,
   base_height_m      |-> FRat(612, 10000),
   shoulder_height_m  |-> FRat(95, 1000),
   upper_arm_length_m |-> FRat(12, 100),
   lower_arm_length_m |-> FRat(9, 100),
   hand_length_m      |-> FRat(6, 100)]

----------------------------------------------------------------------------
(***************************************************************************)
(* Pixel <-> table transform (the body after `calibration` is resolved).   *)
(***************************************************************************)
\* A transform that ignores flip_x: what C9 must tell apart from px_to_table.
px_to_table_no_flip_x(cx, cy, cal) ==
  IF cal = None THEN Raise("TypeError")
  ELSE IF ~({"origin_px", "scale_x", "scale_y"} \subseteq DOMAIN cal)
    THEN Raise("KeyError")
  ELSE
    LET dx == FMul(FromInt(cx - cal["origin_px"][1]), cal["scale_x"])
        dy == FMul(FromInt(cy - cal["origin_px"][2]), cal["scale_y"])
    IN  Ok(<<dx, IF Get(cal, "flip_y", TRUE) THEN FNeg(dy) ELSE dy>>)

px_to_table(cx, cy, cal) ==
  IF cal = None THEN Raise("TypeError")
  ELSE IF ~({"origin_px", "scale_x", "scale_y"} \subseteq DOMAIN cal)
    THEN Raise("KeyError")
  ELSE
    LET origin_px == cal["origin_px"]
        scale_x   == cal["scale_x"]
        scale_y   == cal["scale_y"]
        flip_x    == Get(cal, "flip_x", FALSE)
        flip_y    == Get(cal, "flip_y", TRUE)
        dx        == FMul(FromInt(cx - origin_px[1]), scale_x)
        dy        == FMul(FromInt(cy - origin_px[2]), scale_y)
    IN  Ok(<<IF flip_x THEN FNeg(dx) ELSE dx, IF flip_y THEN FNeg(dy) ELSE dy>>)

\* An inverse that ignores the flips: what C8 must tell apart from table_to_px.
table_to_px_no_flip(x, y, cal) ==
  IF cal = None THEN Raise("TypeError")
  ELSE IF ~({"origin_px", "scale_x", "scale_y"} \subseteq DOMAIN cal)
    THEN Raise("KeyError")
  ELSE
    IF cal["scale_x"].m = 0 \/ cal["scale_y"].m = 0 THEN Raise("ZeroDivisionError")
    ELSE LET cx == FAdd(FromInt(cal["origin_px"][1]), FDiv(x, cal["scale_x"]))
             cy == FAdd(FromInt(cal["origin_px"][2]), FDiv(y, cal["scale_y"]))
         IN  Ok(<<Trunc(cx), Trunc(cy)>>)

table_to_px(x, y, cal) ==
  IF cal = None THEN Raise("TypeError")
  ELSE IF ~({"origin_px", "scale_x", "scale_y"} \subseteq DOMAIN cal)
    THEN Raise("KeyError")
  ELSE
    LET origin_px == cal["origin_px"]
        scale_x   == cal["scale_x"]
        scale_y   == cal["scale_y"]
        flip_x    == Get(cal, "flip_x", FALSE)
        flip_y    == Get(cal, "flip_y", TRUE)
        x1        == IF flip_x THEN FNeg(x) ELSE x
        y1        == IF flip_y THEN FNeg(y) ELSE y
    IN  IF scale_x.m = 0 \/ scale_y.m = 0 THEN Raise("ZeroDivisionError")
        ELSE LET cx == FAdd(FromInt(origin_px[1]), FDiv(x1, scale_x))
                 cy == FAdd(FromInt(origin_px[2]), FDiv(y1, scale_y))
             IN  Ok(<<Trunc(cx), Trunc(cy)>>)

----------------------------------------------------------------------------
(***************************************************************************)
(* Inverse kinematics.  math.atan2 and math.acos, taken in degrees, are    *)
(* tabulated to the nearest whole degree: TanTab[k] = tan(k - 1/2 deg) and *)
(* CosTab[k] = cos(k - 1/2 deg), both scaled by 10000.                      *)
(***************************************************************************)
TanTab == <<87, 262, 437, 612, 787, 963, 1139, 1317, 1495, 1673,
       1853, 2035, 2217, 2401, 2586, 2773, 2962, 3153, 3346, 3541,
       3739, 3939, 4142, 4348, 4557, 4770, 4986, 5206, 5430, 5658,
       5890, 6128, 6371, 6619, 6873, 7133, 7400, 7673, 7954, 8243,
       8541, 8847, 9163, 9490, 9827>>

CosTab == <<9999, 9996, 9990, 9981, 9969, 9953, 9935, 9914, 9890, 9862,
       9832, 9799, 9762, 9723, 9681, 9636, 9588, 9537, 9483, 9426,
       9366, 9304, 9238, 9170, 9099, 9025, 8949, 8870, 8788, 8703,
       8616, 8526, 8433, 8338, 8241, 8141, 8038, 7933, 7826, 7716,
       7604, 7489, 7372, 7253, 7132, 7009, 6883, 6755, 6626, 6494,
       6360, 6225, 6087, 5948, 5807, 5664, 5519, 5372, 5224, 5075,
       4924, 4771, 4617, 4461, 4305, 4146, 3987, 3826, 3665, 3502,
       3338, 3173, 3007, 2840, 2672, 2503, 2334, 2164, 1993, 1822,
       1650, 1478, 1305, 1132, 958, 784, 610, 436, 261, 87>>

\* atan of a ratio 0 <= r <= 1, in whole degrees (0..45).
AtanDeg(r) ==
  LET rs == Trunc(FMul(r, FromInt(10000)))
  IN  Cardinality({k \in 1..45 : TanTab[k] <= rs})

\* math.degrees(math.atan2(y, x)), in whole degrees (-180..180); atan2(0, 0) = 0.
degrees_atan2(y, x) ==
  IF x.m = 0 /\ y.m = 0 THEN Zero
  ELSE LET ax  == FAbs(x)
           ay  == FAbs(y)
           acu == IF FLess(ax, ay) THEN 90 - AtanDeg(FDiv(ax, ay))
                                   ELSE AtanDeg(FDiv(ay, ax))
           deg == IF x.m >= 0 THEN acu ELSE 180 - acu
       IN  FromInt(IF y.m < 0 THEN -deg ELSE deg)

\* math.degrees(math.acos(c)) for -1 <= c <= 1, in whole degrees (0..180).
degrees_acos(c) ==
  LET cs  == Trunc(FMul(FAbs(c), FromInt(10000)))
      acu == Cardinality({k \in 1..90 : cs <= CosTab[k]})
  IN  FromInt(IF c.m < 0 THEN 180 - acu ELSE acu)

\* calculate_arm_angles up to the reachability test: the locals of lines 166-201.
reach_locals(x, y, z, cal) ==
  LET arm_base_x      == Get(cal, "arm_base_x", Zero)
      arm_base_y      == Get(cal, "arm_base_y", Zero)
      base_height     == Get(cal, "base_height_m", FRat(612, 10000))
      shoulder_height == Get(cal, "shoulder_height_m", FRat(95, 1000))
      upper           == Get(cal, "upper_arm_length_m", FRat(12, 100))
      lower           == Get(cal, "lower_arm_length_m", FRat(9, 100))
      hand_length     == Get(cal, "hand_length_m", FRat(6, 100))
      wrist_z         == FAdd(z, hand_length)
      rel_x           == FSub(x, arm_base_x)
      rel_y           == FSub(y, arm_base_y)
      xy              == FSqrt(FAdd(FMul(rel_x, rel_x), FMul(rel_y, rel_y)))
      shoulder_z      == FAdd(base_height, shoulder_height)
      dz              == FSub(wrist_z, shoulder_z)
  IN  [base_angle_deg    |-> degrees_atan2(rel_y, rel_x),
       xy_dist           |-> xy,
       target_z_relative |-> dz,
       target_dist       |-> FSqrt(FAdd(FMul(xy, xy), FMul(dz, dz))),
       upper_arm_length  |-> upper,
       lower_arm_length  |-> lower,
       max_reach         |-> FAdd(upper, lower)]

\* A clamp that prints no warning: what C11 must tell apart from reach_clamp.
reach_clamp_silent(L) ==
  IF FLess(L.max_reach, L.target_dist)
    THEN LET scale == FDiv(L.max_reach, L.target_dist)
         IN  [L EXCEPT !.xy_dist = FMul(L.xy_dist, scale),
                       !.target_z_relative = FMul(L.target_z_relative, scale),
                       !.target_dist = L.max_reach] @@ [warned |-> FALSE]
    ELSE L @@ [warned |-> FALSE]

\* A clamp that leaves the vertical offset as it was: what C10 must tell apart
\* from reach_clamp.
reach_clamp_xy_only(L) ==
  IF FLess(L.max_reach, L.target_dist)
    THEN [L EXCEPT !.xy_dist = FMul(L.xy_dist, FDiv(L.max_reach, L.target_dist)),
                   !.target_dist = L.max_reach] @@ [warned |-> TRUE]
    ELSE L @@ [warned |-> FALSE]

\* The reachability clamp (lines 202-208) on those locals; `warned` records the
\* printed warning.
reach_clamp(L) ==
  IF FLess(L.max_reach, L.target_dist)
    THEN LET scale == FDiv(L.max_reach, L.target_dist)
         IN  [L EXCEPT !.xy_dist = FMul(L.xy_dist, scale),
                       !.target_z_relative = FMul(L.target_z_relative, scale),
                       !.target_dist = L.max_reach] @@ [warned |-> TRUE]
    ELSE L @@ [warned |-> FALSE]

\* The law-of-cosines quotient of line 217 without the clamp of line 218: what
\* C14 must tell apart from cos_elbow.
cos_elbow_unclamped(C) ==
  LET u  == C.upper_arm_length
      l  == C.lower_arm_length
      td == C.target_dist
  IN  FDiv(FSub(FAdd(FMul(u, u), FMul(l, l)), FMul(td, td)), FMul(FMul(FromInt(2), u), l))

\* cos_elbow as math.acos receives it (lines 217-218); the divisor is not zero.
cos_elbow(C) ==
  LET u  == C.upper_arm_length
      l  == C.lower_arm_length
      td == C.target_dist
  IN  FMax(FNeg(FromInt(1)), FMin(FromInt(1),
        FDiv(FSub(FAdd(FMul(u, u), FMul(l, l)), FMul(td, td)),
             FMul(FMul(FromInt(2), u), l))))

\* Lines 210-244, on the clamped locals.
arm_angles_of(C) ==
  LET u    == C.upper_arm_length
      l    == C.lower_arm_length
      td   == C.target_dist
      two  == FromInt(2)
      one  == FromInt(1)
      target_angle_deg == degrees_atan2(C.target_z_relative, C.xy_dist)
      den_elbow   == FMul(FMul(two, u), l)
      elbow_angle_deg == degrees_acos(cos_elbow(C))
      den_between == FMul(FMul(two, u), td)
      cos_angle_between == FMax(FNeg(one), FMin(one,
                       FDiv(FSub(FAdd(FMul(u, u), FMul(td, td)), FMul(l, l)), den_between)))
      angle_between_deg == degrees_acos(cos_angle_between)
      shoulder_angle_deg == FSub(target_angle_deg, angle_between_deg)
      total_arm_angle == FAdd(shoulder_angle_deg, elbow_angle_deg)
  IN  IF den_elbow.m = 0 \/ den_between.m = 0 THEN Raise("ZeroDivisionError")
      ELSE Ok([base_deg     |-> C.base_angle_deg,
               shoulder_deg |-> shoulder_angle_deg,
               elbow_deg    |-> elbow_angle_deg,
               wrist_deg    |-> FSub(FromInt(90), total_arm_angle)])

\* calculate_arm_angles(x, y, z, calibration), calibration resolved: the outcome,
\* with the warning it printed.
\* The outcome for the locals C, with the note whether the warning was printed.
angles_and_warning(C) == arm_angles_of(C) @@ [warned |-> C.warned]

calculate_arm_angles(x, y, z, cal) ==
  IF cal = None THEN Raise("AttributeError") @@ [warned |-> FALSE]
  ELSE angles_and_warning(reach_clamp(reach_locals(x, y, z, cal)))

\* The pulse width with the quotient rounded half away from zero: what C7 must
\* tell apart from angle_to_us.
angle_to_us_rounded(angle_deg) ==
  LET q == FAdd(FDiv(FMul(FAbs(angle_deg), FromInt(600)), FromInt(90)), FRat(1, 2))
  IN  1500 + Sign(angle_deg.m) * Trunc(q)

\* One joint's pulse width before the clamp (lines 275-278).
angle_to_us(angle_deg) == 1500 + Trunc(FDiv(FMul(angle_deg, FromInt(600)), FromInt(90)))

\* A clamp without the lower end: what C6 must tell apart from clamp.
clamp_upper_only(u) == IF u > 2100 THEN 2100 ELSE u

\* clamp = lambda u: max(900, min(2100, u))
clamp(u) == IF u < 900 THEN 900 ELSE IF u > 2100 THEN 2100 ELSE u

\* The four pulse widths before the clamp, in the order of the returned list.
us_of_angles(a) ==
  <<angle_to_us(a.base_deg), angle_to_us(a.shoulder_deg),
    angle_to_us(a.elbow_deg), angle_to_us(a.wrist_deg)>>

\* list(map(clamp, us)) of line 281.
map_clamp(us) == [i \in 1..Len(us) |-> clamp(us[i])]

\* Lines 270-281 for the outcome `angles` of the solver: its exception is passed
\* on, its angles become the list of clamped pulse widths.
us_list_of(angles) ==
  IF angles.exc # "" THEN angles
  ELSE [exc |-> "", val |-> map_clamp(us_of_angles(angles.val)),
        warned |-> angles.warned]

\* fake_ik_to_us(x, y, z, calibration), calibration resolved.
fake_ik_to_us(x, y, z, cal) == us_list_of(calculate_arm_angles(x, y, z, cal))

----------------------------------------------------------------------------
(***************************************************************************)
(* State.                                                                  *)
(***************************************************************************)
VARIABLES
  file,          \* calibration.json: [exists, readable, writable, json, doc]
  heap,          \* the dict objects created so far; a reference is an index into it
  _calibration,  \* kinematics._calibration: a reference (NoneRef for None)
  call,          \* the last call into kinematics.py and its outcome
  pc,            \* calibrate.py: where the script is
  calibration,   \* calibrate.py: the global `calibration`, a reference
  click_points,  \* calibrate.py: the global `click_points`
  click_mode,    \* calibrate.py: the global `click_mode`
  startup,       \* history: the profile as calibrate.py line 18 loaded it
  drawn,         \* history: what the last grid drawing read
  arg,           \* the arguments of a call with an explicit calibration
  out,           \* that call's locals and outcome
  solved,        \* history: the first solver call made with calibration=None
  sequence_running,  \* main_sim.py: the global `sequence_running`
  threads,       \* main_sim.py: the run_sequence threads started so far
  main_pc,       \* main_sim.py: the main loop runs, or the process has ended
  USE_ESP32,     \* main_sim.py: USE_ESP32 (a controller is connected)
  pk_pc,         \* simple_pickup.py: where main() is
  controller,    \* simple_pickup.py: main's `controller` ("none" for None)
  pk_step,       \* simple_pickup.py: the step run_sequence is at
  pk_log         \* simple_pickup.py: what reached the controller, in order

vars == <<file, heap, _calibration, call, pc, calibration, click_points,
          click_mode, startup, drawn, arg, out, solved, sequence_running, threads,
          main_pc, USE_ESP32, pk_pc, controller, pk_step, pk_log>>

storeVars == <<file, heap, _calibration, call>>

toolVars == <<pc, calibration, click_points, click_mode, startup, drawn>>

solveVars == <<arg, out>>

simVars == <<sequence_running, threads, main_pc, USE_ESP32>>

pickupVars == <<pk_pc, controller, pk_step, pk_log>>

\* The two scripts that keep no calibration state of their own.
scriptVars == <<simVars, pickupVars>>

NoneRef == 0

Deref(h, r) == IF r = NoneRef THEN None ELSE h[r]

----------------------------------------------------------------------------
(***************************************************************************)
(* The calibration store.  load_calibration and save_calibration are       *)
(* given as the effect of one call in the current state.                   *)
(***************************************************************************)
load_calibration ==
  IF _calibration # NoneRef
    THEN [ret |-> _calibration, cache |-> _calibration, heap |-> heap, log |-> ""]
  ELSE IF file.exists /\ file.readable /\ file.json
    THEN \* json.load(f) succeeded: its value is cached and returned as it is
         IF file.doc = None
           THEN [ret |-> NoneRef, cache |-> NoneRef, heap |-> heap,
                 log |-> "Loaded calibration"]
           ELSE [ret |-> Len(heap) + 1, cache |-> Len(heap) + 1,
                 heap |-> Append(heap, file.doc), log |-> "Loaded calibration"]
  ELSE [ret |-> Len(heap) + 1, cache |-> Len(heap) + 1,
        heap |-> Append(heap, DEFAULT_CALIBRATION),
        log |-> IF file.exists THEN "Error loading calibration" ELSE ""]

\* json.dump raises TypeError on a dict that holds a value JSON has no form for:
\* here a dict with a Python set under the key "notes".
Serialisable(v) == v = None \/ "notes" \notin DOMAIN v

\* bool(object) is False for None and for the empty dict.
Falsy(h, r) == r = NoneRef \/ DOMAIN h[r] = {}

\* save_calibration without the try/except of lines 58-65: what C13 must tell
\* apart from save_calibration.
save_calibration_unguarded(v) ==
  LET L == IF v = None /\ Falsy(heap, _calibration)
             THEN load_calibration
             ELSE [ret |-> _calibration, cache |-> _calibration, heap |-> heap, log |-> ""]
      d == IF v = None THEN Deref(L.heap, L.ret) ELSE v
  IN  IF ~file.writable
        THEN [ret |-> FALSE, exc |-> "PermissionError", file |-> file,
              cache |-> L.cache, heap |-> L.heap]
      ELSE IF ~Serialisable(d)
        THEN [ret |-> FALSE, exc |-> "TypeError",
              file |-> [file EXCEPT !.exists = TRUE, !.json = FALSE, !.doc = None,
                                    !.readable = IF file.exists THEN @ ELSE TRUE],
              cache |-> L.cache, heap |-> L.heap]
      ELSE [ret |-> TRUE, exc |-> "",
            file |-> [file EXCEPT !.exists = TRUE, !.json = TRUE, !.doc = d,
                                  !.readable = IF file.exists THEN @ ELSE TRUE],
            cache |-> L.cache, heap |-> L.heap]

\* save_calibration(v): v a dict, or None for `calibration=None`.  `exc` is the
\* exception that leaves the call ("" for none): open and json.dump raise inside
\* the try, and load_calibration catches its own.
save_calibration(v) ==
  LET L == IF v = None /\ Falsy(heap, _calibration)
             THEN load_calibration
             ELSE [ret |-> _calibration, cache |-> _calibration, heap |-> heap, log |-> ""]
      d == IF v = None THEN Deref(L.heap, L.ret) ELSE v
  IN  IF ~file.writable
        THEN [ret |-> FALSE, exc |-> "", file |-> file, cache |-> L.cache, heap |-> L.heap]
      ELSE IF ~Serialisable(d)
        THEN \* open(..., 'w') has truncated the file when json.dump raises
             [ret |-> FALSE, exc |-> "",
              file |-> [file EXCEPT !.exists = TRUE, !.json = FALSE, !.doc = None,
                                    !.readable = IF file.exists THEN @ ELSE TRUE],
              cache |-> L.cache, heap |-> L.heap]
      ELSE [ret |-> TRUE, exc |-> "",
            file |-> [file EXCEPT !.exists = TRUE, !.json = TRUE, !.doc = d,
                                  !.readable = IF file.exists THEN @ ELSE TRUE],
            cache |-> L.cache, heap |-> L.heap]

----------------------------------------------------------------------------
(***************************************************************************)
(* The persisted files and the profiles the model draws from.  A file is   *)
(* absent, present but unreadable (no permission on it), present with text *)
(* that is not JSON, or present with a JSON document.                      *)
(***************************************************************************)
\* A complete, valid profile other than the default.
ProfileA ==
  [DEFAULT_CALIBRATION EXCEPT !.origin_px = <<300, 200>>,
                              !.scale_x = FRat(1, 700), !.scale_y = FRat(1, 500),
                              !.flip_x = TRUE]

\* Another one, as a client would pass it to save_calibration.
ProfileB ==
  [DEFAULT_CALIBRATION EXCEPT !.origin_px = <<100, 120>>,
                              !.scale_x = FRat(2, 1000), !.flip_y = FALSE]

\* Complete profiles that break the invariants of a profile.
ZeroScale == [DEFAULT_CALIBRATION EXCEPT !.scale_x = Zero]

NegScale == [DEFAULT_CALIBRATION EXCEPT !.scale_y = FRat(-15, 10000)]

ZeroArm == [DEFAULT_CALIBRATION EXCEPT !.upper_arm_length_m = Zero]

\* JSON objects that are no complete profile: {} and {"origin_px": [10, 20]}.
EmptyDict == [k \in {} |-> 0]

PartialDict == [origin_px |-> <<10, 20>>]

\* A dict json.dump cannot write.
SetDict == [origin_px |-> <<320, 240>>, notes |-> "set()"]

Docs == {None, EmptyDict, PartialDict, ProfileA, ZeroScale, NegScale, ZeroArm}

Files ==
  {[exists |-> FALSE, readable |-> FALSE, writable |-> w, json |-> FALSE, doc |-> None]
     : w \in BOOLEAN}
  \cup {[exists |-> TRUE, readable |-> FALSE, writable |-> FALSE, json |-> FALSE,
          doc |-> None]}
  \cup {[exists |-> TRUE, readable |-> TRUE, writable |-> w, json |-> FALSE, doc |-> None]
     : w \in BOOLEAN}
  \cup {[exists |-> TRUE, readable |-> TRUE, writable |-> w, json |-> TRUE, doc |-> d]
     : w \in BOOLEAN, d \in Docs}

\* The dict has every field of a profile.
WellFormed(d) == d # None /\ DOMAIN d = DOMAIN DEFAULT_CALIBRATION

\* A scale or link length that is zero or negative.
Invalid(d) ==
  /\ d # None
  /\ \E k \in {"scale_x", "scale_y", "upper_arm_length_m", "lower_arm_length_m"} :
        k \in DOMAIN d /\ d[k].m <= 0

Pixels == {<<320, 240>>, <<420, 240>>, <<86, 100>>}

Points == {<<Zero, Zero>>, <<FRat(15, 100), FRat(-3, 100)>>}

Targets == {<<FRat(15, 100), Zero, FRat(2, 100)>>, <<FromInt(1), Zero, FRat(2, 100)>>,
            <<Zero, Zero, FRat(962, 10000)>>}

----------------------------------------------------------------------------
(***************************************************************************)
(* Calls into kinematics.py that leave `calibration` to the store          *)
(* (calibration=None), and save_calibration with either argument.          *)
(***************************************************************************)
NoCall == [op |-> "", arg |-> None, ret |-> None, exc |-> "", used |-> None,
           pre_file |-> None, pre_cache |-> None]

\* No solver call made yet.
NoSolve == [op |-> "", arg |-> None, used |-> None, ret |-> None, between |-> {},
            again |-> FALSE]

Called(op, a, ret, exc, used) ==
  [op |-> op, arg |-> a, ret |-> ret, exc |-> exc, used |-> used,
   pre_file |-> file, pre_cache |-> Deref(heap, _calibration)]

Load ==
  LET L == load_calibration
  IN  /\ heap' = L.heap
      /\ _calibration' = L.cache
      /\ call' = Called("load_calibration", None, Deref(L.heap, L.ret), "",
                        Deref(L.heap, L.ret))
      /\ UNCHANGED <<file, toolVars, solveVars, scriptVars>>

Save(v) ==
  LET S == save_calibration(v)
  IN  /\ file' = S.file
      /\ heap' = S.heap
      /\ _calibration' = S.cache
      /\ call' = Called("save_calibration", v, S.ret, S.exc, None)
      /\ UNCHANGED <<toolVars, solveVars, scriptVars>>

PxToTable(p) ==
  LET L == load_calibration
      c == Deref(L.heap, L.ret)
      r == px_to_table(p[1], p[2], c)
  IN  /\ heap' = L.heap
      /\ _calibration' = L.cache
      /\ call' = Called("px_to_table", p, r, r.exc, c)
      /\ UNCHANGED <<file, toolVars, solveVars, scriptVars>>

TableToPx(t) ==
  LET L == load_calibration
      c == Deref(L.heap, L.ret)
      r == table_to_px(t[1], t[2], c)
  IN  /\ heap' = L.heap
      /\ _calibration' = L.cache
      /\ call' = Called("table_to_px", t, r, r.exc, c)
      /\ UNCHANGED <<file, toolVars, solveVars, scriptVars>>

\* A solver that smooths the height with the one of the call before it, kept
\* in a module global: what C12 must tell apart from ArmAngles.
ArmAngles_smoothed(t) ==
  LET L == load_calibration
      c == Deref(L.heap, L.ret)
      z == IF call.op \in {"calculate_arm_angles", "fake_ik_to_us"} THEN call.arg[3]
                                                                    ELSE t[3]
      r == calculate_arm_angles(t[1], t[2], z, c)
  IN  /\ heap' = L.heap
      /\ _calibration' = L.cache
      /\ call' = Called("calculate_arm_angles", t, r, r.exc, c)
      /\ UNCHANGED <<file, toolVars, solveVars, scriptVars>>

ArmAngles(t) ==
  LET L == load_calibration
      c == Deref(L.heap, L.ret)
  IN  /\ heap' = L.heap
      /\ _calibration' = L.cache
      /\ \E r \in {calculate_arm_angles(t[1], t[2], t[3], c)} :
            call' = Called("calculate_arm_angles", t, r, r.exc, c)
      /\ UNCHANGED <<file, toolVars, solveVars, scriptVars>>

\* fake_ik_to_us(x, y, z): line 268 passes calibration=None on to the solver.
FakeIk(t) ==
  LET L == load_calibration
      c == Deref(L.heap, L.ret)
  IN  /\ heap' = L.heap
      /\ _calibration' = L.cache
      /\ \E r \in {fake_ik_to_us(t[1], t[2], t[3], c)} :
            call' = Called("fake_ik_to_us", t, r, r.exc, c)
      /\ UNCHANGED <<file, toolVars, solveVars, scriptVars>>

\* get_arm_orientation_info(x, y, z): calculate_arm_angles (line 291), then
\* fake_ik_to_us (line 292) on what the first call left in the cache.
OrientationInfo(t) ==
  LET L == load_calibration
      c == Deref(L.heap, L.ret)
  IN  /\ heap' = L.heap
      /\ _calibration' = L.cache
      \* line 292 loads again: it finds the cache line 291 set (None stays None)
      /\ \E angles \in {calculate_arm_angles(t[1], t[2], t[3], c)},
            servo_us \in {fake_ik_to_us(t[1], t[2], t[3], c)} :
            call' = Called("get_arm_orientation_info", t,
                           [angles_deg |-> angles, servo_us |-> servo_us], angles.exc, c)
      /\ UNCHANGED <<file, toolVars, solveVars, scriptVars>>

ToolIdle ==
  /\ pc = "off"
  /\ calibration = NoneRef
  /\ click_points = <<>>
  /\ click_mode = "origin"
  /\ startup = None
  /\ drawn = [calls |-> 0, cal |-> None, mode |-> ""]

SolveIdle ==
  /\ arg = [kind |-> ""]
  /\ out = [op |-> ""]

\* main_sim.py and simple_pickup.py are not running.
ScriptsIdle ==
  /\ sequence_running = FALSE
  /\ threads = <<>>
  /\ main_pc = "off"
  /\ USE_ESP32 = FALSE
  /\ pk_pc = "off"
  /\ controller = "none"
  /\ pk_step = 0
  /\ pk_log = <<>>

Init ==
  /\ file \in Files
  /\ heap = <<>>
  /\ _calibration = NoneRef
  /\ call = NoCall
  /\ solved = NoSolve
  /\ ToolIdle
  /\ SolveIdle
  /\ ScriptsIdle

\* The store's API and its clients; the solver history is not kept here.
Next ==
  \/ Load /\ UNCHANGED solved
  \/ \E v \in {None, ProfileB, DEFAULT_CALIBRATION, SetDict} : Save(v) /\ UNCHANGED solved
  \/ \E p \in Pixels : PxToTable(p) /\ UNCHANGED solved
  \/ \E t \in Points : TableToPx(t) /\ UNCHANGED solved
  \/ \E t \in Targets : ArmAngles(t) /\ UNCHANGED solved

Spec == Init /\ [][Next]_vars

----------------------------------------------------------------------------
(***************************************************************************)
(* Repeated solver calls with calibration=None, with loads, transforms and *)
(* other solver calls between them.  `solved` keeps the first solver call  *)
(* of the run, the kinds of calls made since, and whether it was repeated. *)
(***************************************************************************)
\* `solved` after a call of kind k ("load", "transform", "solve") other than a
\* repetition of the first solver call.
Noted(k) == IF solved.op = "" THEN solved ELSE [solved EXCEPT !.between = @ \cup {k}]

\* `solved` after the solver call op(t) that used profile c and had outcome r.
SolvedAfter(op, t, c, r) ==
  IF solved.op = ""
    THEN [op |-> op, arg |-> t, used |-> c, ret |-> r, between |-> {}, again |-> FALSE]
  ELSE IF solved.op = op /\ solved.arg = t
    THEN [solved EXCEPT !.again = TRUE]
  ELSE Noted("solve")

\* The files a run of repeated calls starts on: none, and a profile.
RepeatFiles == {f \in Files : f.writable /\ (~f.exists \/ (f.json /\ f.doc = ProfileA))}

\* The targets called: a reachable one, and the shoulder joint of the default arm.
RepeatTargets == {<<FRat(15, 100), Zero, FRat(2, 100)>>, <<Zero, Zero, FRat(962, 10000)>>}

InitRepeat ==
  /\ file \in RepeatFiles
  /\ heap = <<>>
  /\ _calibration = NoneRef
  /\ call = NoCall
  /\ solved = NoSolve
  /\ ToolIdle
  /\ SolveIdle
  /\ ScriptsIdle

NextRepeat ==
  \/ Load /\ solved' = Noted("load")
  \/ PxToTable(<<420, 240>>) /\ solved' = Noted("transform")
  \/ TableToPx(<<FRat(15, 100), FRat(-3, 100)>>) /\ solved' = Noted("transform")
  \/ \E t \in RepeatTargets :
        ArmAngles(t) /\ solved' = SolvedAfter("calculate_arm_angles", t, call'.used, call'.ret)
  \/ \E t \in RepeatTargets :
        FakeIk(t) /\ solved' = SolvedAfter("fake_ik_to_us", t, call'.used, call'.ret)
  \/ \E t \in RepeatTargets : OrientationInfo(t) /\ solved' = Noted("solve")

SpecRepeat == InitRepeat /\ [][NextRepeat]_vars

----------------------------------------------------------------------------
(***************************************************************************)
(* calibrate.py.  The script is at "start" before line 18, at "loop" at    *)
(* the top of its while loop, at "waitKey" inside cv2.waitKey (where the   *)
(* mouse callback runs), and at "exit" or "crashed" when it has ended.     *)
(* `call` is the history of Spec's direct calls and is left alone here.    *)
(***************************************************************************)
MaxClicks == 3

\* Where the user clicks: two points 120 px apart in X and 90 px apart in Y.
Clicks == {<<200, 150>>, <<320, 240>>}

\* The files the script is started on.
ToolFiles ==
  {f \in Files : \/ ~f.exists
                 \/ f.json /\ f.writable /\ f.doc \in {None, PartialDict, ProfileA}}

\* Lines 18-22: load the calibration and print it.
ToolStart ==
  /\ pc = "start"
  /\ LET L == load_calibration
         c == Deref(L.heap, L.ret)
     IN  /\ heap' = L.heap
         /\ _calibration' = L.cache
         /\ calibration' = L.ret
         /\ startup' = c
         /\ pc' = IF c # None /\ {"origin_px", "scale_x", "scale_y", "table_width_m",
                                  "table_height_m"} \subseteq DOMAIN c
                    THEN "loop" ELSE "crashed"
  /\ UNCHANGED <<file, call, click_points, click_mode, drawn, solveVars, solved, scriptVars>>

\* Line 66-68: cap.read() fails and the loop ends.
FrameFail ==
  /\ pc = "loop"
  /\ pc' = "exit"
  /\ UNCHANGED <<storeVars, calibration, click_points, click_mode, startup, drawn, solveVars, solved, scriptVars>>

\* The grid points of lines 89-94 that lie in the frame.
GridPoints(origin) ==
  {g \in {<<origin[1] + i * 50, origin[2] + j * 50>> : i \in -3..3, j \in -3..3} :
     0 <= g[1] /\ g[1] < 640 /\ 0 <= g[2] /\ g[2] < 480}

\* Lines 70-113: one frame is drawn from `calibration`; px_to_table runs on every
\* grid point in the frame.
DrawFrame ==
  /\ pc = "loop"
  /\ LET c == Deref(heap, calibration)
         G == GridPoints(c["origin_px"])
     IN  drawn' = [calls |-> Cardinality({g \in G : px_to_table(g[1], g[2], c).exc = ""}),
                   cal |-> c, mode |-> click_mode]
  /\ pc' = "waitKey"
  /\ UNCHANGED <<storeVars, calibration, click_points, click_mode, startup, solveVars, solved, scriptVars>>

\* A callback that starts over after the Y scale is set: what C17 must tell apart
\* from mouse_callback.
mouse_callback_wrapping(x, y) ==
  LET pts == Append(click_points, <<x, y>>)
      n   == Len(pts)
      c   == heap[calibration]
  IN  IF click_mode = "origin"
        THEN [click_points |-> pts, click_mode |-> "scale_x",
              heap |-> [heap EXCEPT ![calibration]["origin_px"] = <<x, y>>]]
      ELSE IF click_mode = "scale_x"
        THEN LET dx_px == Abs(pts[n][1] - pts[n - 1][1])
             IN  [click_points |-> pts, click_mode |-> "scale_y",
                  heap |-> [heap EXCEPT ![calibration]["scale_x"] =
                              IF dx_px > 0 THEN FDiv(FRat(10, 100), FromInt(dx_px))
                                           ELSE c["scale_x"]]]
      ELSE LET dy_px == Abs(pts[n][2] - pts[n - 1][2])
           IN  [click_points |-> pts, click_mode |-> "origin",
                heap |-> [heap EXCEPT ![calibration]["scale_y"] =
                            IF dy_px > 0 THEN FDiv(FRat(10, 100), FromInt(dy_px))
                                         ELSE c["scale_y"]]]

\* mouse_callback(cv2.EVENT_LBUTTONDOWN, x, y, ...): the new click_points,
\* click_mode and heap.
mouse_callback(x, y) ==
  LET pts == Append(click_points, <<x, y>>)
      n   == Len(pts)
      c   == heap[calibration]
  IN  IF click_mode = "origin"
        THEN [click_points |-> pts, click_mode |-> "scale_x",
              heap |-> [heap EXCEPT ![calibration]["origin_px"] = <<x, y>>]]
      ELSE IF click_mode = "scale_x"
        THEN IF n >= 2
               THEN LET dx_px == Abs(pts[n][1] - pts[n - 1][1])
                    IN  [click_points |-> pts, click_mode |-> "scale_y",
                         heap |-> [heap EXCEPT ![calibration]["scale_x"] =
                                     IF dx_px > 0 THEN FDiv(FRat(10, 100), FromInt(dx_px))
                                                  ELSE c["scale_x"]]]
               ELSE [click_points |-> pts, click_mode |-> click_mode, heap |-> heap]
      ELSE IF click_mode = "scale_y" /\ n >= 3
        THEN LET dy_px == Abs(pts[n][2] - pts[n - 1][2])
             IN  [click_points |-> pts, click_mode |-> click_mode,
                  heap |-> [heap EXCEPT ![calibration]["scale_y"] =
                              IF dy_px > 0 THEN FDiv(FRat(10, 100), FromInt(dy_px))
                                           ELSE c["scale_y"]]]
      ELSE [click_points |-> pts, click_mode |-> click_mode, heap |-> heap]

\* A left click at (x, y), delivered while the loop is in cv2.waitKey.
Click(x, y) ==
  /\ pc = "waitKey"
  /\ Len(click_points) < MaxClicks
  /\ LET M == mouse_callback(x, y)
     IN  /\ click_points' = M.click_points
         /\ click_mode' = M.click_mode
         /\ heap' = M.heap
  /\ UNCHANGED <<file, _calibration, call, pc, calibration, startup, drawn, solveVars, solved, scriptVars>>

\* waitKey returns no key the loop handles: next frame.
NoKey ==
  /\ pc = "waitKey"
  /\ pc' = "loop"
  /\ UNCHANGED <<storeVars, calibration, click_points, click_mode, startup, drawn, solveVars, solved, scriptVars>>

\* 'q'
KeyQ ==
  /\ pc = "waitKey"
  /\ pc' = "exit"
  /\ UNCHANGED <<storeVars, calibration, click_points, click_mode, startup, drawn, solveVars, solved, scriptVars>>

\* 's': save_calibration(calibration)
KeyS ==
  /\ pc = "waitKey"
  /\ LET v == Deref(heap, calibration)
         S == save_calibration(v)
     IN  /\ file' = S.file
         /\ heap' = S.heap
         /\ _calibration' = S.cache
  /\ pc' = "loop"
  /\ UNCHANGED <<call, calibration, click_points, click_mode, startup, drawn, solveVars, solved, scriptVars>>

\* 'r': click_points = [], click_mode = "origin", calibration = load_calibration()
KeyR ==
  /\ pc = "waitKey"
  /\ LET L == load_calibration
     IN  /\ heap' = L.heap
         /\ _calibration' = L.cache
         /\ calibration' = L.ret
  /\ click_points' = <<>>
  /\ click_mode' = "origin"
  /\ pc' = "loop"
  /\ UNCHANGED <<file, call, startup, drawn, solveVars, solved, scriptVars>>

InitTool ==
  /\ file \in ToolFiles
  /\ heap = <<>>
  /\ _calibration = NoneRef
  /\ call = NoCall
  /\ pc = "start"
  /\ calibration = NoneRef
  /\ click_points = <<>>
  /\ click_mode = "origin"
  /\ startup = None
  /\ drawn = [calls |-> 0, cal |-> None, mode |-> ""]
  /\ SolveIdle
  /\ solved = NoSolve
  /\ ScriptsIdle

NextTool ==
  \/ ToolStart
  \/ FrameFail
  \/ DrawFrame
  \/ \E p \in Clicks : Click(p[1], p[2])
  \/ NoKey
  \/ KeyQ
  \/ KeyS
  \/ KeyR

SpecTool == InitTool /\ [][NextTool]_vars

----------------------------------------------------------------------------
(***************************************************************************)
(* Calls with an explicit calibration: the transform on the pixels of a    *)
(* frame, and the solver on targets around the arm.  `arg` holds the       *)
(* arguments and `out` the call made on them: its locals and its outcome.  *)
(***************************************************************************)
FrameWidth == 640

FrameHeight == 480

\* Every PxStride-th column and row of the frame is tried.
PxStride == 16

PxCols == {k * PxStride : k \in 0..((FrameWidth - 1) \div PxStride)}

PxRows == {k * PxStride : k \in 0..((FrameHeight - 1) \div PxStride)}

\* Valid profiles for the transform: two origins, three pairs of scales (the
\* default one, an arbitrary one, and the one the calibration tool computes from
\* clicks 120 px and 90 px apart), every combination of flips.
PixelProfiles ==
  {[DEFAULT_CALIBRATION EXCEPT !.origin_px = o, !.scale_x = sc[1], !.scale_y = sc[2],
                               !.flip_x = fx, !.flip_y = fy] :
     o \in {<<320, 240>>, <<200, 150>>},
     sc \in {<<FRat(15, 10000), FRat(15, 10000)>>,
             <<FRat(1, 700), FRat(1, 500)>>,
             <<FDiv(FRat(10, 100), FromInt(120)), FDiv(FRat(10, 100), FromInt(90))>>},
     fx \in BOOLEAN, fy \in BOOLEAN}

\* Valid profiles for the solver: the default arm, and a shorter arm whose base
\* is off the table origin.
ArmProfiles ==
  {DEFAULT_CALIBRATION,
   [DEFAULT_CALIBRATION EXCEPT !.arm_base_x = FRat(5, 100), !.arm_base_y = FRat(-2, 100),
                               !.upper_arm_length_m = FRat(8, 100),
                               !.lower_arm_length_m = FRat(10, 100)]}

TargetXs == {FromInt(-1), FRat(-15, 100), Zero, FRat(5, 100), FRat(15, 100),
             FRat(21, 100), FromInt(1)}

TargetYs == {FRat(-10, 100), FRat(-2, 100), Zero, FRat(15, 100)}

TargetZs == {Zero, FRat(2, 100), FRat(962, 10000), FRat(20, 100)}

CallPxToTable ==
  /\ arg.kind = "pixel"
  /\ out.op = ""
  /\ out' = [op |-> "px_to_table", ret |-> px_to_table(arg.cx, arg.cy, arg.cal)]
  /\ UNCHANGED <<storeVars, toolVars, arg, solved, scriptVars>>

\* table_to_px on the table point px_to_table returned.
CallTableToPx ==
  /\ out.op = "px_to_table"
  /\ out.ret.exc = ""
  /\ out' = [op |-> "table_to_px", table |-> out.ret.val,
             ret |-> table_to_px(out.ret.val[1], out.ret.val[2], arg.cal)]
  /\ UNCHANGED <<storeVars, toolVars, arg, solved, scriptVars>>

CallArmAngles ==
  /\ arg.kind = "target"
  /\ out.op = ""
  /\ out' = [op |-> "calculate_arm_angles",
             pre |-> reach_locals(arg.x, arg.y, arg.z, arg.cal),
             post |-> reach_clamp(reach_locals(arg.x, arg.y, arg.z, arg.cal)),
             ret |-> calculate_arm_angles(arg.x, arg.y, arg.z, arg.cal)]
  /\ UNCHANGED <<storeVars, toolVars, arg, solved, scriptVars>>

CallFakeIk ==
  /\ arg.kind = "target"
  /\ out.op = ""
  /\ LET angles == calculate_arm_angles(arg.x, arg.y, arg.z, arg.cal)
     IN  out' = [op |-> "fake_ik_to_us",
                 angles |-> angles,
                 us |-> IF angles.exc = "" THEN us_of_angles(angles.val) ELSE <<>>,
                 ret |-> fake_ik_to_us(arg.x, arg.y, arg.z, arg.cal)]
  /\ UNCHANGED <<storeVars, toolVars, arg, solved, scriptVars>>

InitSolve ==
  /\ file = [exists |-> FALSE, readable |-> FALSE, writable |-> TRUE, json |-> FALSE,
             doc |-> None]
  /\ heap = <<>>
  /\ _calibration = NoneRef
  /\ call = NoCall
  /\ solved = NoSolve
  /\ ToolIdle
  /\ ScriptsIdle
  /\ \/ arg \in {[kind |-> "pixel", cx |-> cx, cy |-> cy, cal |-> c] :
                   cx \in PxCols, cy \in PxRows, c \in PixelProfiles}
     \/ arg \in {[kind |-> "target", x |-> x, y |-> y, z |-> z, cal |-> c] :
                   x \in TargetXs, y \in TargetYs, z \in TargetZs, c \in ArmProfiles}
  /\ out = [op |-> ""]

NextSolve ==
  \/ CallPxToTable
  \/ CallTableToPx
  \/ CallArmAngles
  \/ CallFakeIk

SpecSolve == InitSolve /\ [][NextSolve]_vars

----------------------------------------------------------------------------
(***************************************************************************)
(* Claims about the calibration store (checked under Spec).                *)
(***************************************************************************)
\* The file holds a complete profile that load_calibration can read.
Persisted(f) == f.exists /\ f.readable /\ f.json /\ WellFormed(f.doc)

\* C1: a load_calibration that reads the file never raises, and returns the
\* persisted profile when the file is present and well-formed and a profile equal
\* to DEFAULT_CALIBRATION in every other state of the file.
C1_LoadPersistedOrDefault ==
  (call.op = "load_calibration" /\ call.pre_cache = None) =>
     /\ call.exc = ""
     /\ call.ret = IF Persisted(call.pre_file) THEN call.pre_file.doc
                                               ELSE DEFAULT_CALIBRATION

\* C2: when a successful save_calibration(p) with an explicit profile p is followed
\* by a load_calibration or by a transform or solve with calibration=None, that
\* call uses p.
C2_SavedProfileIsCurrent ==
  [][(/\ call.op = "save_calibration"
      /\ call.arg # None
      /\ call.ret = TRUE
      /\ call'.op \in {"load_calibration", "px_to_table", "table_to_px",
                       "calculate_arm_angles"})
     => call'.used = call.arg]_vars

\* C4: table_to_px and calculate_arm_angles never work on a profile with a zero or
\* negative scale or link length: such a profile is rejected with ConfigInvalid.
C4_InvalidProfileRejected ==
  (call.op \in {"table_to_px", "calculate_arm_angles"} /\ Invalid(call.used))
     => call.exc = "ConfigInvalid"

\* The profile a completed save_calibration call was to write: its argument, or
\* for calibration=None the cached profile (loaded by the call when there was none).
SavedProfile == IF call.arg # None THEN call.arg ELSE Deref(heap, _calibration)

\* C13: save_calibration always returns a boolean to its caller: True when the
\* profile was written to the calibration file, False when writing failed (no
\* write permission, a profile json.dump cannot write); no failure leaves the
\* call as an exception.
C13_SaveReturnsBoolean ==
  call.op = "save_calibration" =>
     /\ call.exc = ""
     /\ call.ret \in BOOLEAN
     /\ call.ret = TRUE =>
          file.exists /\ file.json /\ file.doc = SavedProfile
     /\ call.ret = FALSE =>
          ~call.pre_file.writable \/ ~Serialisable(SavedProfile)
     /\ (~call.pre_file.writable \/ ~Serialisable(SavedProfile)) => call.ret = FALSE

\* A save that failed on json.dump after the file was opened for writing.
C13_Witness ==
  /\ call.op = "save_calibration"
  /\ call.pre_file.writable
  /\ ~Serialisable(SavedProfile)
  /\ call.ret = FALSE
  /\ call.exc = ""

----------------------------------------------------------------------------
(***************************************************************************)
(* Claim about repeated solver calls (checked under SpecRepeat).           *)
(***************************************************************************)
\* The last call has the inputs and the profile of the first solver call.
SameInputs ==
  /\ solved.op # ""
  /\ call.op \in {"calculate_arm_angles", "fake_ik_to_us", "get_arm_orientation_info"}
  /\ call.arg = solved.arg
  /\ call.used = solved.used

----------------------------------------------------------------------------
(***************************************************************************)
(* Claims about calibrate.py (checked under SpecTool).                     *)
(***************************************************************************)
\* C3: no grid drawing runs px_to_table on a partially-updated profile: one whose
\* origin_px an in-progress calibration (click_mode "scale_x": the origin is
\* clicked, the X scale is not) has changed while scale_x still holds the value
\* it had before the calibration.
C3_NoPartialProfileRead ==
  drawn.calls > 0 =>
     ~(/\ drawn.mode = "scale_x"
       /\ drawn.cal["origin_px"] # startup["origin_px"]
       /\ drawn.cal["scale_x"] = startup["scale_x"])

\* C16: 'r' resets the working calibration: after 'r', origin_px, scale_x and
\* scale_y have the values they had when the calibration was loaded at start-up,
\* so the click edits made since are discarded.
C16_ResetRestoresStartup ==
  [][KeyR => /\ heap'[calibration']["origin_px"] = startup["origin_px"]
             /\ heap'[calibration']["scale_x"] = startup["scale_x"]
             /\ heap'[calibration']["scale_y"] = startup["scale_y"]]_vars

\* A step of the tool is a left click: click_points grows by one point.
IsClick == Len(click_points') = Len(click_points) + 1

\* The profile fields a step of the tool changes.
ChangedFields ==
  {k \in DOMAIN heap[calibration] : heap'[calibration'][k] # heap[calibration][k]}

\* C17: click_mode advances origin -> scale_x -> scale_y on successive left clicks
\* and returns to origin only through 'r'; a click in origin mode changes only
\* origin_px, a click in scale_x mode at most scale_x, a click in scale_y mode at
\* most scale_y, and every other profile field stays as it is.
C17_ClickModeAndFrame ==
  [][/\ IsClick =>
          /\ calibration' = calibration
          /\ DOMAIN heap'[calibration] = DOMAIN heap[calibration]
          /\ click_mode = "origin" =>
               click_mode' = "scale_x" /\ ChangedFields \subseteq {"origin_px"}
          /\ click_mode = "scale_x" =>
               click_mode' = "scale_y" /\ ChangedFields \subseteq {"scale_x"}
          /\ click_mode = "scale_y" =>
               click_mode' = "scale_y" /\ ChangedFields \subseteq {"scale_y"}
     /\ (click_mode # "origin" /\ click_mode' = "origin") => KeyR]_vars

\* Three clicks have set the origin and both scales, and the mode rests at scale_y.
C17_Witness ==
  /\ pc = "waitKey"
  /\ click_mode = "scale_y"
  /\ Len(click_points) = 3
  /\ heap[calibration]["origin_px"] = click_points[1]
  /\ heap[calibration]["scale_x"] # startup["scale_x"]
  /\ heap[calibration]["scale_y"] # startup["scale_y"]

----------------------------------------------------------------------------
(***************************************************************************)
(* Claims about the transform, the solver and the pulse widths (checked    *)
(* under SpecSolve).                                                       *)
(***************************************************************************)
JointNames == {"base_deg", "shoulder_deg", "elbow_deg", "wrist_deg"}

\* C5: calculate_arm_angles returns four defined angles for every target and every
\* valid profile, never raising: also when the wrist target is the shoulder joint
\* (target_dist = 0).
C5_SolverAlwaysReturnsAngles ==
  out.op = "calculate_arm_angles" =>
     /\ out.ret.exc = ""
     /\ DOMAIN out.ret.val = JointNames

\* The float quotient angle_deg * 600 / 90 of lines 275-278, as m / 2^k.
Quot(angle_deg) ==
  LET q == FDiv(FMul(angle_deg, FromInt(600)), FromInt(90))
  IN  IF q.e >= 0 THEN [m |-> q.m * 2^(q.e), k |-> 0] ELSE [m |-> q.m, k |-> -q.e]

\* n is q truncated toward zero; n is an integer nearest to q.
IsTruncOf(n, q) ==
  IF q.m >= 0 THEN n * 2^(q.k) <= q.m /\ q.m < (n + 1) * 2^(q.k)
              ELSE (n - 1) * 2^(q.k) < q.m /\ q.m <= n * 2^(q.k)

IsNearestTo(n, q) == Abs(2 * q.m - 2 * n * 2^(q.k)) <= 2^(q.k)

\* The angles of a completed fake_ik_to_us call, in the order of its list.
AnglesInOrder ==
  <<out.angles.val.base_deg, out.angles.val.shoulder_deg,
    out.angles.val.elbow_deg, out.angles.val.wrist_deg>>

FakeIkReturned == out.op = "fake_ik_to_us" /\ out.ret.exc = ""

\* C6: the list fake_ik_to_us returns has exactly four elements, each in
\* [900, 2100], in the order base, shoulder, elbow, wrist: element i is joint i's
\* pulse width, cut to the nearer end of the range when it lies outside.
C6_PulseWidthsClamped ==
  FakeIkReturned =>
     /\ Len(out.ret.val) = 4
     /\ \A i \in 1..4 :
          /\ 900 <= out.ret.val[i] /\ out.ret.val[i] <= 2100
          /\ \E u \in {out.ret.val[i]} \cup
                      (IF out.ret.val[i] = 900 THEN -2000..900 ELSE {}) \cup
                      (IF out.ret.val[i] = 2100 THEN 2100..5000 ELSE {}) :
                IsTruncOf(u - 1500, Quot(AnglesInOrder[i]))

\* An unreachable target whose list is cut at both ends of the range.
C6_Witness ==
  /\ FakeIkReturned
  /\ out.ret.warned
  /\ \E i, j \in 1..4 : out.us[i] > 2100 /\ out.us[j] < 900

\* C7 as claimed: before the clamp each pulse width is 1500 plus the quotient
\* angle_deg * 600 / 90 rounded to the nearest integer.
C7_PulseWidthRounded ==
  FakeIkReturned => \A i \in 1..4 : IsNearestTo(out.us[i] - 1500, Quot(AnglesInOrder[i]))

\* C7 as amended: before the clamp each pulse width is 1500 plus the quotient
\* angle_deg * 600 / 90 truncated toward zero, for positive and negative angles.
C7_PulseWidthTruncated ==
  FakeIkReturned => \A i \in 1..4 : IsTruncOf(out.us[i] - 1500, Quot(AnglesInOrder[i]))

\* A negative angle whose quotient is no integer and lies nearer to the integer
\* below it: the pulse width is the one above, where rounding would give the other.
C7_Witness ==
  /\ FakeIkReturned
  /\ \E j \in 1..4 :
        /\ AnglesInOrder[j].m < 0
        /\ ~IsNearestTo(out.us[j] - 1500, Quot(AnglesInOrder[j]))
        /\ IsNearestTo(out.us[j] - 1501, Quot(AnglesInOrder[j]))

\* C8: for a valid profile and a pixel P of the frame, table_to_px(px_to_table(P))
\* differs from P by at most 1 pixel on each axis.
C8_RoundTripWithinOnePixel ==
  out.op = "table_to_px" =>
     /\ out.ret.exc = ""
     /\ Abs(out.ret.val[1] - arg.cx) <= 1
     /\ Abs(out.ret.val[2] - arg.cy) <= 1

\* A round trip under both flips that comes back one pixel off.
C8_Witness ==
  /\ out.op = "table_to_px"
  /\ arg.cal.flip_x /\ arg.cal.flip_y
  /\ Abs(out.ret.val[1] - arg.cx) = 1

\* C9: px_to_table returns (sx * (cx - origin_px[0]) * scale_x,
\* sy * (cy - origin_px[1]) * scale_y) with sx = -1 exactly when flip_x is set and
\* sy = -1 exactly when flip_y is set; the origin pixel maps to (0, 0).
C9_PxToTableFormula ==
  out.op = "px_to_table" =>
     LET c  == arg.cal
         sx == IF c.flip_x THEN -1 ELSE 1
         sy == IF c.flip_y THEN -1 ELSE 1
     IN  /\ out.ret.exc = ""
         /\ out.ret.val[1] = FMul(FromInt(sx * (arg.cx - c.origin_px[1])), c.scale_x)
         /\ out.ret.val[2] = FMul(FromInt(sy * (arg.cy - c.origin_px[2])), c.scale_y)
         /\ (<<arg.cx, arg.cy>> = c.origin_px => out.ret.val = <<Zero, Zero>>)

\* A pixel right of and below the origin, mapped with flip_x set and flip_y clear.
C9_Witness ==
  /\ out.op = "px_to_table"
  /\ arg.cal.flip_x /\ ~arg.cal.flip_y
  /\ arg.cx > arg.cal.origin_px[1] /\ arg.cy > arg.cal.origin_px[2]
  /\ out.ret.val[1].m < 0 /\ out.ret.val[2].m > 0

\* C10: when target_dist exceeds max_reach the solver multiplies xy_dist and the
\* vertical offset by max_reach / target_dist and goes on with target_dist equal
\* to max_reach; otherwise it changes none of the three.
C10_ReachClamp ==
  out.op = "calculate_arm_angles" =>
     LET scale == FDiv(out.pre.max_reach, out.pre.target_dist)
     IN  IF FLess(out.pre.max_reach, out.pre.target_dist)
           THEN /\ out.post.xy_dist = FMul(out.pre.xy_dist, scale)
                /\ out.post.target_z_relative = FMul(out.pre.target_z_relative, scale)
                /\ out.post.target_dist = out.pre.max_reach
           ELSE /\ out.post.xy_dist = out.pre.xy_dist
                /\ out.post.target_z_relative = out.pre.target_z_relative
                /\ out.post.target_dist = out.pre.target_dist

\* An unreachable target off the horizontal: both values are scaled down.
C10_Witness ==
  /\ out.op = "calculate_arm_angles"
  /\ FLess(out.pre.max_reach, out.pre.target_dist)
  /\ FLess(out.post.xy_dist, out.pre.xy_dist)
  /\ FLess(FAbs(out.post.target_z_relative), FAbs(out.pre.target_z_relative))
  /\ out.post.target_dist = out.pre.max_reach

----------------------------------------------------------------------------
(***************************************************************************)
(* Claims about the unreachable-target advisory and the elbow angle        *)
(* (checked under SpecSolve).                                              *)
(***************************************************************************)
\* The target of the completed solver call lies beyond max_reach (line 202).
Unreachable ==
  LET L == reach_locals(arg.x, arg.y, arg.z, arg.cal)
  IN  FLess(L.max_reach, L.target_dist)

SolverCalled == out.op \in {"calculate_arm_angles", "fake_ik_to_us"}

\* C11: an unreachable target is no error: for target_dist > max_reach,
\* calculate_arm_angles and fake_ik_to_us return normally with a result, and the
\* warning is printed exactly when target_dist > max_reach, never for a reachable
\* target.
C11_UnreachableIsAdvisory ==
  SolverCalled =>
     /\ out.ret.warned <=> Unreachable
     /\ Unreachable =>
          /\ out.ret.exc = ""
          /\ out.op = "calculate_arm_angles" => DOMAIN out.ret.val = JointNames
          /\ out.op = "fake_ik_to_us" => Len(out.ret.val) = 4

\* fake_ik_to_us has returned a list for a target beyond max_reach, with the warning.
C11_Witness ==
  /\ out.op = "fake_ik_to_us"
  /\ Unreachable
  /\ out.ret.warned
  /\ out.ret.exc = ""

\* The quotient of line 217 for the locals the solver went on with, as the
\* fraction n / d of two integers scaled alike (link lengths are positive).
ElbowQuotient ==
  LET C == out.post
      u == C.upper_arm_length
      l == C.lower_arm_length
  IN  [n |-> FSub(FAdd(FMul(u, u), FMul(l, l)), FMul(C.target_dist, C.target_dist)),
       d |-> FMul(FMul(FromInt(2), u), l)]

\* C14: for every target and every profile with positive link lengths the value
\* passed to acos for the elbow is within [-1, 1], and a returned elbow_deg lies
\* in [0, 180], also for an unreachable target after the reach clamp.
C14_ElbowInRange ==
  out.op = "calculate_arm_angles" =>
     /\ ~FLess(cos_elbow(out.post), FromInt(-1))
     /\ ~FLess(FromInt(1), cos_elbow(out.post))
     /\ out.ret.exc = "" =>
          /\ ~FLess(out.ret.val.elbow_deg, Zero)
          /\ ~FLess(FromInt(180), out.ret.val.elbow_deg)

\* A target nearer to the shoulder than the links can fold: the quotient of line
\* 217 exceeds 1, acos receives 1 and the elbow returned is 0.
C14_Witness ==
  /\ out.op = "calculate_arm_angles"
  /\ out.ret.exc = ""
  /\ FLess(ElbowQuotient.d, ElbowQuotient.n)
  /\ cos_elbow(out.post) = FromInt(1)
  /\ out.ret.val.elbow_deg = Zero

----------------------------------------------------------------------------
(***************************************************************************)
(* main_sim.py: the camera loop and the harvesting sequence threads.       *)
(* `threads` holds one record per run_sequence thread that was started:    *)
(* where it is (pc), the number i of the step it will issue next and the   *)
(* local `success` of its last send.                                       *)
(***************************************************************************)
HOME == <<1500, 1500, 1500, 1500>>

\* Delays are in milliseconds.
PICKUP_SEQUENCE ==
  << [name |-> "approach",            servos |-> <<1500, 1700, 1700, 1500>>, delay |-> 3000],
     [name |-> "lower_partway",       servos |-> <<1500, 1300, 1900, 1500>>, delay |-> 2500],
     [name |-> "lower",               servos |-> <<1500,  900, 2100, 1500>>, delay |-> 3000],
     [name |-> "lift_partway",        servos |-> <<1500, 1300, 1900, 1500>>, delay |-> 2500],
     [name |-> "lift",                servos |-> <<1500, 1700, 1700, 1500>>, delay |-> 3000],
     [name |-> "move_left_partway",   servos |-> <<1350, 1700, 1700, 1500>>, delay |-> 2500],
     [name |-> "move_left",           servos |-> <<1200, 1700, 1700, 1500>>, delay |-> 3000],
     [name |-> "lower_drop_partway",  servos |-> <<1200, 1300, 1900, 1500>>, delay |-> 2500],
     [name |-> "drop",                servos |-> <<1200,  900, 2100, 1500>>, delay |-> 3000],
     [name |-> "release_partway",     servos |-> <<1200, 1300, 1900, 1500>>, delay |-> 2500],
     [name |-> "release",             servos |-> <<1200, 1700, 1700, 1500>>, delay |-> 3000],
     [name |-> "return_base_partway", servos |-> <<1350, 1700, 1700, 1500>>, delay |-> 2500],
     [name |-> "return_base",         servos |-> <<1500, 1700, 1700, 1500>>, delay |-> 3000],
     [name |-> "home_transition",     servos |-> <<1500, 1600, 1600, 1500>>, delay |-> 2000],
     [name |-> "home",                servos |-> HOME,                       delay |-> 3000] >>

\* The 'g' presses that start a thread in one run of the program.
MaxThreads == 2

\* The bottle the 'g' handler passes on: {"cx": 320, "cy": 240, ...}.
dummy_bottle == [cx |-> 320, cy |-> 240]

\* calibration.json as main_sim.py may find it: absent, a complete profile, JSON
\* null, or an object with origin_px only.
SimFiles ==
  {f \in Files : f.writable /\ (~f.exists \/ (f.json /\ f.doc \in {ProfileA, None, PartialDict}))}

InitSim ==
  /\ file \in SimFiles
  /\ heap = <<>>
  /\ _calibration = NoneRef
  /\ call = NoCall
  /\ solved = NoSolve
  /\ ToolIdle
  /\ SolveIdle
  /\ sequence_running = FALSE
  /\ threads = <<>>
  /\ main_pc = "start"
  /\ USE_ESP32 = FALSE
  /\ pk_pc = "off"
  /\ controller = "none"
  /\ pk_step = 0
  /\ pk_log = <<>>

\* Lines 40-56: the profile is loaded once into the global `calibration`, and
\* USE_ESP32 ends up True exactly when --esp32 was given and connect() succeeded.
SimStart ==
  /\ main_pc = "start"
  /\ LET L == load_calibration
     IN  /\ heap' = L.heap
         /\ _calibration' = L.cache
         /\ calibration' = L.ret
  /\ USE_ESP32' \in BOOLEAN
  /\ main_pc' = "loop"
  /\ UNCHANGED <<file, call, pc, click_points, click_mode, startup, drawn, solveVars,
                 solved, sequence_running, threads, pickupVars>>

\* The rest of the state main_sim.py never writes once it is in its loop.
simFrame == <<storeVars, toolVars, solveVars, solved, USE_ESP32, pickupVars>>

\* Lines 268-274 with execute_harvesting_sequence, lines 187-189 and 232-233:
\* the main thread tests the flag and, when it is False, starts a thread.
KeyG ==
  /\ main_pc = "loop"
  /\ IF sequence_running
       THEN UNCHANGED threads
       ELSE /\ Len(threads) < MaxThreads
            /\ threads' = Append(threads, [pc |-> "started", i |-> 1, success |-> "none"])
  /\ UNCHANGED <<sequence_running, main_pc, simFrame>>

\* The main thread has not left the process: daemon threads still run.
Alive == main_pc \in {"loop", "closing"}

\* Lines 193-205 in thread k: the flag is set, then px_to_table is called on the
\* loaded profile; an exception it raises ends the thread there.
RunSequenceBegin(k) ==
  /\ Alive
  /\ k \in DOMAIN threads
  /\ threads[k].pc = "started"
  /\ sequence_running' = TRUE
  /\ LET L == IF calibration = NoneRef THEN load_calibration
              ELSE [ret |-> calibration, cache |-> _calibration, heap |-> heap]
     IN  /\ heap' = L.heap
         /\ _calibration' = L.cache
         /\ \E r \in {px_to_table(dummy_bottle.cx, dummy_bottle.cy, Deref(L.heap, L.ret))} :
               threads' = [threads EXCEPT ![k].pc = IF r.exc = "" THEN "running"
                                                                  ELSE "crashed"]
  /\ UNCHANGED <<file, call, toolVars, solveVars, solved, main_pc, USE_ESP32, pickupVars>>

\* Lines 207-223 in thread k: one pass of the loop.  The step is sent when the
\* controller is connected, `success` is only printed, and the thread sleeps.
RunSequenceStep(k) ==
  /\ Alive
  /\ k \in DOMAIN threads
  /\ threads[k].pc = "running"
  /\ threads[k].i <= Len(PICKUP_SEQUENCE)
  /\ \E sent \in (IF USE_ESP32 THEN {"ok", "failed"} ELSE {"none"}) :
        threads' = [threads EXCEPT ![k].i = @ + 1, ![k].success = sent]
  /\ UNCHANGED <<sequence_running, main_pc, simFrame>>

\* Lines 225-229 in thread k: the loop is over and the flag is reset.
RunSequenceEnd(k) ==
  /\ Alive
  /\ k \in DOMAIN threads
  /\ threads[k].pc = "running"
  /\ threads[k].i = Len(PICKUP_SEQUENCE) + 1
  /\ sequence_running' = FALSE
  /\ threads' = [threads EXCEPT ![k].pc = "done"]
  /\ UNCHANGED <<main_pc, simFrame>>

\* Lines 242-243 and 265-266: a failed frame read or 'q' leaves the loop.
Quit ==
  /\ main_pc = "loop"
  /\ main_pc' = "closing"
  /\ UNCHANGED <<sequence_running, threads, simFrame>>

\* Lines 276-283 are done and the process exits; its daemon threads end with it.
Exit ==
  /\ main_pc = "closing"
  /\ main_pc' = "exited"
  /\ UNCHANGED <<sequence_running, threads, simFrame>>

NextSim ==
  \/ SimStart
  \/ KeyG
  \/ \E k \in 1..MaxThreads : RunSequenceBegin(k)
  \/ \E k \in 1..MaxThreads : RunSequenceStep(k)
  \/ \E k \in 1..MaxThreads : RunSequenceEnd(k)
  \/ Quit
  \/ Exit

SpecSim == InitSim /\ [][NextSim]_vars

(***************************************************************************)
(* Claims about main_sim.py (checked under SpecSim).                       *)
(***************************************************************************)
\* Thread k has set the flag and has not come to the end of run_sequence.
InSequence(k) == k \in DOMAIN threads /\ threads[k].pc = "running"

\* C15: at most one harvesting sequence runs at a time: whatever the
\* interleaving of 'g' presses with the sequence threads, no two run_sequence
\* threads are in their steps together.
C15_AtMostOneSequence ==
  \A j, k \in 1..MaxThreads : InSequence(j) /\ InSequence(k) => j = k

\* Thread k is over: it returned or an exception ended it.
Ended(k) == k \in DOMAIN threads /\ threads[k].pc \in {"done", "crashed"}

\* C20: every harvesting sequence that starts comes to its end with every step
\* of PICKUP_SEQUENCE issued in order, the last of them HOME, and with
\* sequence_running reset to False, whatever the sends reported: no thread is
\* over before its last step, and when every started thread is over the flag is
\* False, so that the next 'g' starts a new sequence.
C20_SequenceFinishes ==
  /\ \A k \in 1..MaxThreads :
        Ended(k) => /\ threads[k].i = Len(PICKUP_SEQUENCE) + 1
                    /\ PICKUP_SEQUENCE[threads[k].i - 1].servos = HOME
  /\ (threads # <<>> /\ \A k \in DOMAIN threads : Ended(k)) => ~sequence_running

----------------------------------------------------------------------------
(***************************************************************************)
(* simple_pickup.py: main() and run_sequence().  pk_log is the history of  *)
(* what reached the controller, with a mark where Ctrl+C arrived.          *)
(***************************************************************************)
\* PICKUP_SEQUENCE of simple_pickup.py (delays in milliseconds).
SIMPLE_PICKUP_SEQUENCE ==
  << [name |-> "approach",  servos |-> <<1500, 1300, 1700, 1500>>, delay |-> 2000],
     [name |-> "lower",     servos |-> <<1500, 1800, 1900, 1500>>, delay |-> 2000],
     [name |-> "lift",      servos |-> <<1500, 1300, 1700, 1500>>, delay |-> 2000],
     [name |-> "move_left", servos |-> <<1200, 1300, 1700, 1500>>, delay |-> 2000],
     [name |-> "drop",      servos |-> <<1200, 1800, 1900, 1500>>, delay |-> 2000],
     [name |-> "release",   servos |-> <<1200, 1300, 1700, 1500>>, delay |-> 1500],
     [name |-> "home",      servos |-> HOME,                       delay |-> 2000] >>

\* controller.set_servos_from_us_list(us) was called and returned `ok`.
Servos(us, ok) == [cmd |-> "servos", us |-> us, ok |-> ok]

Disconnected == [cmd |-> "disconnect", us |-> <<>>, ok |-> TRUE]

Interrupted == [cmd |-> "KeyboardInterrupt", us |-> <<>>, ok |-> TRUE]

InitPickup ==
  /\ file = [exists |-> FALSE, readable |-> FALSE, writable |-> TRUE, json |-> FALSE,
             doc |-> None]
  /\ heap = <<>>
  /\ _calibration = NoneRef
  /\ call = NoCall
  /\ solved = NoSolve
  /\ ToolIdle
  /\ SolveIdle
  /\ sequence_running = FALSE
  /\ threads = <<>>
  /\ main_pc = "off"
  /\ USE_ESP32 = FALSE
  /\ pk_pc = "main"
  /\ controller = "none"
  /\ pk_step = 1
  /\ pk_log = <<>>

pickupFrame == <<storeVars, toolVars, solveVars, solved, simVars>>

\* Lines 97-115: the controller is kept only when --esp32 was given (and the
\* module was importable) and connect() returned True.
PickupMain ==
  /\ pk_pc = "main"
  /\ \E esp32 \in BOOLEAN, connected \in BOOLEAN :
        controller' = IF esp32 /\ connected THEN "connected" ELSE "none"
  /\ pk_pc' = "sleep"
  /\ UNCHANGED <<pk_step, pk_log, pickupFrame>>

\* Lines 55-71: the banner and time.sleep(2) are over.
PickupSleep ==
  /\ pk_pc = "sleep"
  /\ pk_pc' = "steps"
  /\ UNCHANGED <<controller, pk_step, pk_log, pickupFrame>>

\* Lines 73-86: one pass of the loop, the step's sleep included.
PickupStep ==
  /\ pk_pc = "steps"
  /\ pk_step <= Len(SIMPLE_PICKUP_SEQUENCE)
  /\ IF controller = "connected"
       THEN \E success \in BOOLEAN :
               pk_log' = Append(pk_log, Servos(SIMPLE_PICKUP_SEQUENCE[pk_step].servos, success))
       ELSE UNCHANGED pk_log
  /\ pk_step' = pk_step + 1
  /\ UNCHANGED <<pk_pc, controller, pickupFrame>>

\* Lines 87-89: run_sequence returns to main.
PickupReturn ==
  /\ pk_pc = "steps"
  /\ pk_step = Len(SIMPLE_PICKUP_SEQUENCE) + 1
  /\ pk_pc' = "finally"
  /\ UNCHANGED <<controller, pk_step, pk_log, pickupFrame>>

\* An interrupt that nothing catches: main is left at once.
KeyboardInterrupt_uncaught ==
  /\ pk_pc \in {"sleep", "steps"}
  /\ pk_log' = Append(pk_log, Interrupted)
  /\ pk_pc' = "done"
  /\ UNCHANGED <<controller, pk_step, pickupFrame>>

\* Ctrl+C while run_sequence is in its first sleep or in the loop (between two
\* sends): lines 121-122 catch it and the finally clause is next.
KeyboardInterrupt ==
  /\ pk_pc \in {"sleep", "steps"}
  /\ pk_log' = Append(pk_log, Interrupted)
  /\ pk_pc' = "finally"
  /\ UNCHANGED <<controller, pk_step, pickupFrame>>

\* Lines 123-128: with a controller HOME is sent and main sleeps a second.
PickupFinally ==
  /\ pk_pc = "finally"
  /\ IF controller = "connected"
       THEN /\ \E success \in BOOLEAN : pk_log' = Append(pk_log, Servos(HOME, success))
            /\ pk_pc' = "homed"
       ELSE /\ UNCHANGED pk_log
            /\ pk_pc' = "done"
  /\ UNCHANGED <<controller, pk_step, pickupFrame>>

\* Line 129: controller.disconnect().
PickupDisconnect ==
  /\ pk_pc = "homed"
  /\ pk_log' = Append(pk_log, Disconnected)
  /\ controller' = "disconnected"
  /\ pk_pc' = "done"
  /\ UNCHANGED <<pk_step, pickupFrame>>

NextPickup ==
  \/ PickupMain
  \/ PickupSleep
  \/ PickupStep
  \/ PickupReturn
  \/ KeyboardInterrupt
  \/ PickupFinally
  \/ PickupDisconnect

SpecPickup == InitPickup /\ [][NextPickup]_vars

(***************************************************************************)
(* Claim about simple_pickup.py (checked under SpecPickup).                *)
(***************************************************************************)
\* What reached the controller, in order.
Commands == SelectSeq(pk_log, LAMBDA e : e.cmd # "KeyboardInterrupt")

\* C18: when main is over and a controller was connected, the last two things
\* the controller received are HOME and then disconnect (nothing after the
\* disconnect, and no disconnect before), whether run_sequence returned or
\* was interrupted; without a connected controller no command is ever sent.
C18_HomeThenDisconnect ==
  /\ (pk_pc = "done" /\ controller # "none") =>
        /\ Len(Commands) >= 2
        /\ Commands[Len(Commands)] = Disconnected
        /\ Commands[Len(Commands) - 1].cmd = "servos"
        /\ Commands[Len(Commands) - 1].us = HOME
        /\ \A n \in 1..(Len(Commands) - 1) : Commands[n].cmd = "servos"
  /\ controller = "none" => Commands = <<>>

\* Ctrl+C arrived after the third step and before the fourth: the controller
\* got three steps, then HOME, then the disconnect.
C18_Witness ==
  /\ pk_pc = "done"
  /\ controller = "disconnected"
  /\ Len(pk_log) = 6
  /\ pk_log[4] = Interrupted
  /\ pk_log[3].us = SIMPLE_PICKUP_SEQUENCE[3].servos
  /\ pk_log[5].us = HOME
  /\ pk_log[6] = Disconnected

----------------------------------------------------------------------------
(***************************************************************************)
(* nlu.py: _dist.  A text is a sequence of one-character strings, and the  *)
(* two regular expressions are matched on it as re.search matches them:    *)
(* leftmost start, alternatives in the order written, greedy quantifiers.  *)
(***************************************************************************)
Digits == {"0", "1", "2", "3", "4", "5", "6", "7", "8", "9"}

Letters ==
  {"a", "b", "c", "d", "e", "f", "g", "h", "i", "j", "k", "l", "m", "n", "o", "p", "q",
   "r", "s", "t", "u", "v", "w", "x", "y", "z"}

\* \w at position p of t (no character before the first or after the last).
IsWord(t, p) == p \in 1..Len(t) /\ t[p] \in (Digits \cup Letters \cup {"_"})

\* \b between positions p - 1 and p.
Boundary(t, p) == IsWord(t, p - 1) # IsWord(t, p)

\* The literal w is at position p.
MatchAt(t, p, w) == p + Len(w) - 1 <= Len(t) /\ SubSeq(t, p, p + Len(w) - 1) = w

\* r"\b(little|bit|slight|slightly)\b"
HEDGES ==
  {<<"l", "i", "t", "t", "l", "e">>, <<"b", "i", "t">>, <<"s", "l", "i", "g", "h", "t">>,
   <<"s", "l", "i", "g", "h", "t", "l", "y">>}

Hedged(t) ==
  \E p \in 1..Len(t), w \in HEDGES :
     Boundary(t, p) /\ MatchAt(t, p, w) /\ Boundary(t, p + Len(w))

\* (mm|millimeter|cm|centimeter|m|meter), in the order of the pattern.
UNITS ==
  << <<"m", "m">>,
     <<"m", "i", "l", "l", "i", "m", "e", "t", "e", "r">>,
     <<"c", "m">>,
     <<"c", "e", "n", "t", "i", "m", "e", "t", "e", "r">>,
     <<"m">>,
     <<"m", "e", "t", "e", "r">> >>

\* \d+ from p on: the first position that holds no digit.
RECURSIVE DigitsEnd(_, _)
DigitsEnd(t, p) == IF p <= Len(t) /\ t[p] \in Digits THEN DigitsEnd(t, p + 1) ELSE p

\* (\d+(?:\.\d+)?) from p on.  A shorter number never lets the rest match: a
\* unit starts with neither a digit nor a dot.
NumberEnd(t, p) ==
  LET q == DigitsEnd(t, p)
  IN  IF q <= Len(t) /\ t[q] = "." /\ DigitsEnd(t, q + 1) > q + 1
        THEN DigitsEnd(t, q + 1) ELSE q

\* \s* from p on.
RECURSIVE SpacesEnd(_, _)
SpacesEnd(t, p) == IF p <= Len(t) /\ t[p] = " " THEN SpacesEnd(t, p + 1) ELSE p

\* Alternative k of the unit group, then s?, then \b, match at q.
UnitMatches(t, q, k) ==
  /\ MatchAt(t, q, UNITS[k])
  /\ LET e == q + Len(UNITS[k])
     IN  \/ e <= Len(t) /\ t[e] = "s" /\ Boundary(t, e + 1)
         \/ Boundary(t, e)

\* The whole pattern matches with its number starting at p.
MatchesFrom(t, p) ==
  /\ p \in 1..Len(t)
  /\ t[p] \in Digits
  /\ \E k \in DOMAIN UNITS : UnitMatches(t, SpacesEnd(t, NumberEnd(t, p)), k)

\* int() of the digits t[p..q-1], 0 for none.
RECURSIVE DigitsValue(_, _, _)
DigitsValue(t, p, q) ==
  IF p >= q THEN 0
  ELSE 10 * DigitsValue(t, p, q - 1)
       + (CHOOSE n \in 0..9 : <<"0", "1", "2", "3", "4", "5", "6", "7", "8", "9">>[n + 1] = t[q - 1])

RECURSIVE Pow10(_)
Pow10(n) == IF n = 0 THEN 1 ELSE 10 * Pow10(n - 1)

\* float(m.group(1)) for the number at t[p..q-1].
float(t, p, q) ==
  LET d == DigitsEnd(t, p)
  IN  IF d = q THEN FromInt(DigitsValue(t, p, q))
      ELSE FRat(DigitsValue(t, p, d) * Pow10(q - d - 1) + DigitsValue(t, d + 1, q),
                Pow10(q - d - 1))

\* unit.startswith(w)
startswith(unit, w) == Len(w) <= Len(unit) /\ SubSeq(unit, 1, Len(w)) = w

_dist(text) ==
  IF Hedged(text) THEN FRat(3, 100)
  ELSE IF ~\E p \in 1..Len(text) : MatchesFrom(text, p) THEN FRat(3, 100)
  ELSE
    LET p    == CHOOSE p \in 1..Len(text) :
                   MatchesFrom(text, p) /\ \A r \in 1..(p - 1) : ~MatchesFrom(text, r)
        q    == NumberEnd(text, p)
        u    == SpacesEnd(text, q)
        k    == CHOOSE k \in DOMAIN UNITS :
                   UnitMatches(text, u, k) /\ \A j \in 1..(k - 1) : ~UnitMatches(text, u, j)
        val  == float(text, p, q)
        unit == UNITS[k]
    IN  IF startswith(unit, <<"m", "m">>) THEN FDiv(val, FromInt(1000))
        ELSE IF startswith(unit, <<"c", "m">>) THEN FDiv(val, FromInt(100))
        ELSE val

(***************************************************************************)
(* The texts _dist is called on: "move it <lead> <number><gap><unit> left" *)
(* with every part optional.                                               *)
(***************************************************************************)
Leads ==
  {[text |-> <<>>, hedge |-> FALSE],
   [text |-> <<"a", " ", "l", "i", "t", "t", "l", "e", " ">>, hedge |-> TRUE],
   [text |-> <<"a", " ", "b", "i", "t", " ">>, hedge |-> TRUE],
   [text |-> <<"s", "l", "i", "g", "h", "t", "l", "y", " ">>, hedge |-> TRUE],
   [text |-> <<"r", "a", "b", "b", "i", "t", " ">>, hedge |-> FALSE]}

\* A number as written and as the fraction n / d it denotes; none is `absent`.
Numbers ==
  {[text |-> <<>>, absent |-> TRUE, n |-> 0, d |-> 1],
   [text |-> <<"5">>, absent |-> FALSE, n |-> 5, d |-> 1],
   [text |-> <<"1", "2">>, absent |-> FALSE, n |-> 12, d |-> 1],
   [text |-> <<"2", ".", "5">>, absent |-> FALSE, n |-> 25, d |-> 10]}

Gaps == {<<>>, <<" ">>}

\* Unit words with the divisor into meters of each; "mile" is no unit of the
\* pattern, and <<>> is no unit at all (divisor 0).
UnitWords ==
  {[text |-> UNITS[1], per_m |-> 1000], [text |-> UNITS[2], per_m |-> 1000],
   [text |-> UNITS[3], per_m |-> 100], [text |-> UNITS[4], per_m |-> 100],
   [text |-> UNITS[5], per_m |-> 1], [text |-> UNITS[6], per_m |-> 1],
   [text |-> <<"m", "i", "l", "e">>, per_m |-> 0], [text |-> <<>>, per_m |-> 0]}

Plurals == {<<>>, <<"s">>}

\* The text of a call, from its parts.
Text(a) ==
  <<"m", "o", "v", "e", " ", "i", "t", " ">> \o a.lead.text \o a.number.text \o a.gap
    \o a.unit.text \o a.plural \o <<" ", "l", "e", "f", "t">>

InitNlu ==
  /\ file = [exists |-> FALSE, readable |-> FALSE, writable |-> TRUE, json |-> FALSE,
             doc |-> None]
  /\ heap = <<>>
  /\ _calibration = NoneRef
  /\ call = NoCall
  /\ solved = NoSolve
  /\ ToolIdle
  /\ ScriptsIdle
  /\ arg \in {[kind |-> "text", lead |-> l, number |-> n, gap |-> g, unit |-> u,
               plural |-> s] :
                 l \in Leads, n \in Numbers, g \in Gaps, u \in UnitWords, s \in Plurals}
  /\ out = [op |-> ""]

CallDist ==
  /\ arg.kind = "text"
  /\ out.op = ""
  /\ out' = [op |-> "_dist", ret |-> _dist(Text(arg))]
  /\ UNCHANGED <<storeVars, toolVars, arg, solved, scriptVars>>

NextNlu == CallDist

SpecNlu == InitNlu /\ [][NextNlu]_vars

(***************************************************************************)
(* Claim about nlu.py (checked under SpecNlu).                             *)
(***************************************************************************)
\* C19: _dist returns meters for every unit spelling its pattern accepts: N
\* before mm or millimeter(s) gives N/1000, before cm or centimeter(s) N/100,
\* before m or meter(s) N; a text with little/bit/slight/slightly, or with no
\* number followed by a unit, gives 0.03.
C19_DistInMeters ==
  out.op = "_dist" =>
     out.ret = IF arg.lead.hedge \/ arg.number.absent \/ arg.unit.per_m = 0
                 THEN FRat(3, 100)
               ELSE IF arg.unit.per_m = 1 THEN FRat(arg.number.n, arg.number.d)
               ELSE FDiv(FRat(arg.number.n, arg.number.d), FromInt(arg.unit.per_m))

=============================================================================
